---- MODULE Spec2Model ----
(***************************************************************************)
(* fiximports.py: rules-file parser, account path resolver, first-match    *)
(* classifier and the fix-up driver (main), as a state machine.            *)
(*                                                                         *)
(* A Python str is a sequence of one-character strings: "E:D a" is         *)
(* <<"E", ":", "D", " ", "a">>.                                            *)
(***************************************************************************)
EXTENDS Integers, Sequences, FiniteSets, TLC

VARIABLES
    rulesfile,      \* args.rulesfile: the text of the rules file, a sequence of lines
    ac2fix,         \* args.ac2fix
    imbalance_ac,   \* args.imbalance_ac
    use_memo,       \* args.use_memo
    nochange,       \* args.nochange (of the current run)
    storeOK,        \* whether Session(args.gnucash_file) can open the store
    backend,        \* "file": SetAccount stays in memory until save(); "sql": written through
    ledger,         \* the transactions of the book: description, notes, number of splits
    saved,          \* the store: split -> account, as persisted
    run,            \* which invocation of the program this is
    pc,             \* position of main()
    rules,          \* main's rules
    acct,           \* the session's in-memory book: split -> account
    orig_splits,    \* orig_account.GetSplitList(), the list the outer loop iterates
    oi,             \* number of outer-loop iterations started
    ii,             \* number of inner-loop iterations done in the current transaction
    total,
    imbalance,
    fixed,
    lastcall,       \* the last get_ac_from_str call of this run: its argument and outcome
    err,            \* the exception raised inside main's try block, if any
    saveCalls,      \* gnucash_session.save() calls of this run
    endCalls,       \* gnucash_session.end() calls of this run
    exitcode,       \* process exit status, -1 while running
    trace,          \* the SetAccount calls of this run, in order
    tested,         \* the account-name tests of this run, in order: split and outcome
    store0,         \* the store as this run's Session found it
    prev            \* what the previous run left behind

vars == <<rulesfile, ac2fix, imbalance_ac, use_memo, nochange, storeOK, backend,
          ledger, saved, run, pc, rules, acct, orig_splits, oi, ii, total,
          imbalance, fixed, lastcall, err, saveCalls, endCalls, exitcode,
          trace, tested, store0, prev>>

(***************************************************************************)
(* Bounds                                                                  *)
(***************************************************************************)
MaxTxns == 2
MaxLines == 2
MaxRuns == 2

(***************************************************************************)
(* Strings                                                                 *)
(***************************************************************************)
Range(s) == {s[i] : i \in 1..Len(s)}

Min(S) == CHOOSE x \in S : \A y \in S : x <= y

\* str.isspace() / \s on the characters used here
IsSpace(c) == c \in {" ", "\t"}

RECURSIVE lstrip(_)
lstrip(s) == IF s = <<>> THEN s
             ELSE IF IsSpace(Head(s)) THEN lstrip(Tail(s)) ELSE s

RECURSIVE rstrip(_)
rstrip(s) == IF s = <<>> THEN s
             ELSE IF IsSpace(s[Len(s)]) THEN rstrip(SubSeq(s, 1, Len(s) - 1)) ELSE s

\* line.strip()
strip(s) == rstrip(lstrip(s))

\* ''.join(parts)
RECURSIVE join(_)
join(parts) == IF parts = <<>> THEN <<>> ELSE Head(parts) \o join(Tail(parts))

\* re.split(':', s)
RECURSIVE re_split(_)
re_split(s) ==
    LET colons == {i \in 1..Len(s) : s[i] = ":"}
    IN  IF colons = {} THEN <<s>>
        ELSE <<SubSeq(s, 1, Min(colons) - 1)>>
                 \o re_split(SubSeq(s, Min(colons) + 1, Len(s)))

(***************************************************************************)
(* Regular expressions (Python re) over the pattern alphabet               *)
(*   ordinary characters, "." (any character), "^" (start of string) and   *)
(*   "(" (opens a group; the alphabet has no ")" so it never closes).      *)
(***************************************************************************)
\* re.compile(pattern) succeeds
Compiles(pattern) == "(" \notin Range(pattern)

\* does pattern p match s starting at offset i (0-based)
RECURSIVE MatchHere(_, _, _)
MatchHere(p, s, i) ==
    IF p = <<>> THEN TRUE
    ELSE IF Head(p) = "^" THEN i = 0 /\ MatchHere(Tail(p), s, i)
    ELSE /\ i < Len(s)
         /\ (Head(p) = "." \/ s[i + 1] = Head(p))
         /\ MatchHere(Tail(p), s, i + 1)

\* pattern.search(s)
search(p, s) == \E i \in 0..Len(s) : MatchHere(p, s, i)

\* pattern.match(s)
match(p, s) == MatchHere(p, s, 0)

(***************************************************************************)
(* readrules                                                               *)
(***************************************************************************)
NoGroups == [matched |-> FALSE, ac |-> <<>>, pattern |-> <<>>]

\* the tail \s+(.+) of both line formats, tried at index i of line
RestMatch(line, i, ac) ==
    LET nonws == {j \in i..Len(line) : ~IsSpace(line[j])}
        e     == IF nonws = {} THEN Len(line) + 1 ELSE Min(nonws)
    IN  IF e = i THEN NoGroups
        ELSE IF e <= Len(line)
            THEN [matched |-> TRUE, ac |-> ac, pattern |-> SubSeq(line, e, Len(line))]
        ELSE IF e - i >= 2
            THEN [matched |-> TRUE, ac |-> ac, pattern |-> SubSeq(line, Len(line), Len(line))]
        ELSE NoGroups

\* re.match(r"^\"([^\"]+)\"\s+(.+)", line)
MatchQuoted(line) ==
    IF line = <<>> \/ Head(line) # "\"" THEN NoGroups
    ELSE LET quotes == {k \in 2..Len(line) : line[k] = "\""}
         IN  IF quotes = {} \/ Min(quotes) = 2 THEN NoGroups
             ELSE RestMatch(line, Min(quotes) + 1, SubSeq(line, 2, Min(quotes) - 1))

\* re.match(r"^(\S+)\s+(.+)", line)
MatchPlain(line) ==
    IF line = <<>> \/ IsSpace(Head(line)) THEN NoGroups
    ELSE LET ws == {k \in 1..Len(line) : IsSpace(line[k])}
         IN  IF ws = {} THEN NoGroups
             ELSE RestMatch(line, Min(ws), SubSeq(line, 1, Min(ws) - 1))

\* a parser that gives up on a line of the wrong format
ParseLineStrict(rawline) ==
    LET line   == strip(rawline)
        result == IF line # <<>> /\ Head(line) = "\"" THEN MatchQuoted(line)
                  ELSE MatchPlain(line)
    IN  IF line = <<>> \/ Head(line) = "#" THEN [kind |-> "skip"]
        ELSE IF ~result.matched THEN [kind |-> "raise"]
        ELSE IF Compiles(result.pattern)
            THEN [kind |-> "rule", rule |-> <<result.pattern, result.ac>>]
        ELSE [kind |-> "raise"]

\* the body of readrules' loop for one line
ParseLine(rawline) ==
    LET line   == strip(rawline)
        result == IF line # <<>> /\ Head(line) = "\"" THEN MatchQuoted(line)
                  ELSE MatchPlain(line)
    IN  IF line = <<>> \/ Head(line) = "#" THEN [kind |-> "skip"]
        ELSE IF ~result.matched THEN [kind |-> "ignore"]
        ELSE IF Compiles(result.pattern)
            THEN [kind |-> "rule", rule |-> <<result.pattern, result.ac>>]
        ELSE [kind |-> "raise"]

\* rules.append((compiled, ac)) written as an insertion at the front
AppendRuleFront(rs, rule) == <<rule>> \o rs

\* rules.append((compiled, ac))
AppendRule(rs, rule) == Append(rs, rule)

RECURSIVE ReadLines(_, _)
ReadLines(lines, rs) ==
    IF lines = <<>> THEN [ok |-> TRUE, rules |-> rs]
    ELSE LET p == ParseLine(Head(lines))
         IN  IF p.kind = "raise" THEN [ok |-> FALSE, rules |-> <<>>]
             ELSE IF p.kind = "rule" THEN ReadLines(Tail(lines), AppendRule(rs, p.rule))
             ELSE ReadLines(Tail(lines), rs)

readrules(file) == ReadLines(file, <<>>)

(***************************************************************************)
(* The account tree of the book                                            *)
(***************************************************************************)
\* accounts are named here by their full path; Root is the book's root account,
\* None the absent account a failed lookup yields
Root == "ROOT"
None == "None"
AcA  == "A"
AcIU == "IU"
AcE  == "E"
AcD  == "E:D"
Accounts == {Root, AcA, AcIU, AcE, AcD}

\* account.GetName()
GetName(a) ==
    CASE a = Root -> <<"R">>
      [] a = AcA  -> <<"A">>
      [] a = AcIU -> <<"I", "U">>
      [] a = AcE  -> <<"E">>
      [] a = AcD  -> <<"D">>

\* the parent of an account in the tree
GetParent(a) == IF a = AcD THEN AcE ELSE Root

\* top_account.lookup_by_name(name); None when there is no such child
lookup_by_name(top_account, name) ==
    LET found == {a \in Accounts \ {Root} :
                     GetParent(a) = top_account /\ GetName(a) = name}
    IN  IF found = {} THEN None ELSE CHOOSE a \in found : TRUE

PATH_PREFIX == <<"A", "/", "C", " ", "p", "a", "t", "h", " ">>
PATH_SUFFIX == <<" ", "c", "o", "u", "l", "d", " ", "n", "o", "t", " ",
                 "b", "e", " ", "f", "o", "u", "n", "d">>

RECURSIVE account_from_path(_, _, _)
account_from_path(top_account, account_path, original_path) ==
    LET account == lookup_by_name(top_account, Head(account_path))
        rest    == Tail(account_path)
    IN  IF account = None
            THEN [ok |-> FALSE, account |-> None,
                  msg |-> PATH_PREFIX \o join(original_path) \o PATH_SUFFIX]
        ELSE IF Len(rest) > 0
            THEN account_from_path(account, rest, original_path)
        ELSE [ok |-> TRUE, account |-> account, msg |-> <<>>]

(***************************************************************************)
(* get_ac_from_str                                                         *)
(***************************************************************************)
\* the scan order "for pattern, acpath in rules"
RECURSIVE get_ac_from_str(_, _, _)
get_ac_from_str(str, rs, root_ac) ==
    IF rs = <<>> THEN [kind |-> "nomatch", account |-> None, msg |-> <<>>, acpath |-> <<>>]
    ELSE LET pattern == Head(rs)[1]
             acpath  == Head(rs)[2]
             acplist == re_split(acpath)
             newac   == account_from_path(root_ac, acplist, acplist)
         IN  IF search(pattern, str)
                 THEN IF newac.ok
                          THEN [kind |-> "account", account |-> newac.account,
                                msg |-> <<>>, acpath |-> acpath]
                          ELSE [kind |-> "raise", account |-> None,
                                msg |-> newac.msg, acpath |-> acpath]
             ELSE get_ac_from_str(str, Tail(rs), root_ac)

(***************************************************************************)
(* The book: transactions, their splits, and the collaborator's calls      *)
(***************************************************************************)
\* a split is <<t, k>>: the k-th split of the t-th transaction

\* trans.GetSplitList() cut down to the first two splits of the transaction
TransSplitsPair(t) == [k \in 1..(IF ledger[t].n < 2 THEN ledger[t].n ELSE 2) |-> <<t, k>>]

\* trans.GetSplitList()
TransSplits(t) == [k \in 1..ledger[t].n |-> <<t, k>>]

RECURSIVE SplitsFrom(_)
SplitsFrom(t) == IF t > Len(ledger) THEN <<>>
                 ELSE [k \in 1..ledger[t].n |-> <<t, k>>] \o SplitsFrom(t + 1)

\* account.GetSplitList(): the splits of the book assigned to account, in book order
GetSplitList(account, book) ==
    LET all  == SplitsFrom(1)
        here == {i \in 1..Len(all) : book[all[i]] = account}
        F[i \in 0..Len(all)] ==
            IF i = 0 THEN <<>>
            ELSE IF i \in here THEN Append(F[i - 1], all[i]) ELSE F[i - 1]
    IN  F[Len(all)]

\* split.SetAccount(newac) that leaves the split where it was
SetAccountLost(book, split, newac) == book

\* split.SetAccount(newac)
SetAccount(book, split, newac) == [book EXCEPT ![split] = newac]

\* every account name passes as an imbalance account
EligibleAny(acname) == TRUE

\* imbalance_pattern.match(acname)
Eligible(acname) == match(imbalance_ac, acname)

\* search_str of the transaction t
SearchStr(t) == IF use_memo THEN ledger[t].memo ELSE ledger[t].desc

\* save whatever the flag says
ShouldSaveAlways == TRUE

\* if not args.nochange
ShouldSave == ~nochange

NoErr == [kind |-> "none", msg |-> <<>>, path |-> <<>>]
REGEX_ERROR == <<"r", "e", ".", "e", "r", "r", "o", "r">>
NoCall == [called |-> FALSE, str |-> <<>>,
           result |-> [kind |-> "nomatch", account |-> None, msg |-> <<>>, acpath |-> <<>>]]

(***************************************************************************)
(* Inputs                                                                  *)
(***************************************************************************)
L_plain      == <<"E", ":", "D", " ", "a">>
L_gap        == <<" ", "E", " ", " ", "^", "b", " ">>
L_imb        == <<"I", "U", " ", "a">>
L_badtarget  == <<"E", ":", "X", " ", "b">>
L_single     == <<"E", ":", "D">>
L_comment    == <<" ", "#", "E", " ", "a">>
L_blank      == <<" ">>
L_quoted     == <<"\"", "E", ":", "D", "\"", " ", "b", ".">>
L_quoteopen  == <<"\"", "E", " ", "a">>
L_quotenows  == <<"\"", "E", "\"", "a">>
L_badre      == <<"E", " ", "(">>

RuleLines == {L_plain, L_gap, L_imb, L_badtarget, L_single, L_comment, L_blank,
              L_quoted, L_quoteopen, L_quotenows, L_badre}

SeqsUpTo(S, n) == UNION {[1..k -> S] : k \in 0..n}

RuleFiles == {<<L_plain, L_badtarget>>,
              <<L_comment, L_imb, L_plain>>,
              <<L_single, L_quoted, L_gap>>,
              <<L_plain, L_badre>>}

SearchStrs == {<<"a">>, <<"b">>, <<"a", "b">>, <<"b", "a">>}

StartPaths == {<<"A">>, <<"I", "U">>, <<"E", ":", "X">>}

ImbalancePatterns == {<<"I">>, <<"U">>, <<".">>, <<"(">>}

TxnTemplates ==
    {[desc |-> <<"a">>,      memo |-> <<"b">>, acs |-> <<AcA, AcIU>>],
     [desc |-> <<"b">>,      memo |-> <<"a">>, acs |-> <<AcIU, AcA, AcE>>],
     [desc |-> <<"a", "b">>, memo |-> <<>>,    acs |-> <<AcA, AcA, AcIU>>],
     [desc |-> <<"b", "a">>, memo |-> <<"a">>, acs |-> <<AcIU, AcE>>]}

InitialStore(l) == [s \in UNION {{<<t, k>> : k \in 1..Len(l[t].acs)} : t \in 1..Len(l)}
                        |-> l[s[1]].acs[s[2]]]

Book(l) == [t \in 1..Len(l) |-> [desc |-> l[t].desc, memo |-> l[t].memo, n |-> Len(l[t].acs)]]

(***************************************************************************)
(* main                                                                    *)
(***************************************************************************)
InitRun(l) ==
    /\ ledger = Book(l)
    /\ saved = InitialStore(l)
    /\ run = 1
    /\ pc = "start"
    /\ rules = <<>>
    /\ acct = InitialStore(l)
    /\ orig_splits = <<>>
    /\ oi = 0
    /\ ii = 0
    /\ total = 0
    /\ imbalance = 0
    /\ fixed = 0
    /\ lastcall = NoCall
    /\ err = NoErr
    /\ saveCalls = 0
    /\ endCalls = 0
    /\ exitcode = -1
    /\ trace = <<>>
    /\ tested = <<>>
    /\ store0 = InitialStore(l)
    /\ prev = [valid |-> FALSE, nochange |-> FALSE, completed |-> FALSE,
               total |-> 0, imbalance |-> 0, fixed |-> 0, trace |-> <<>>,
               acct |-> InitialStore(l), store0 |-> InitialStore(l)]

Init ==
    /\ rulesfile \in RuleFiles
    /\ ac2fix \in StartPaths
    /\ imbalance_ac \in ImbalancePatterns
    /\ use_memo \in BOOLEAN
    /\ nochange \in BOOLEAN
    /\ storeOK \in BOOLEAN
    /\ backend \in {"file", "sql"}
    /\ \E l \in SeqsUpTo(TxnTemplates, MaxTxns) : InitRun(l)

\* the parser and the classifier on every rules file of up to MaxLines lines
InitRules ==
    /\ rulesfile \in SeqsUpTo(RuleLines, MaxLines)
    /\ ac2fix = <<"A">>
    /\ imbalance_ac = <<"I">>
    /\ use_memo = FALSE
    /\ nochange \in BOOLEAN
    /\ storeOK \in BOOLEAN
    /\ backend = "file"
    /\ \E d \in SearchStrs :
           InitRun(<<[desc |-> d, memo |-> <<>>, acs |-> <<AcA, AcIU>>]>>)

args == <<rulesfile, ac2fix, imbalance_ac, use_memo, storeOK, backend, ledger>>

\* lines 159-160; an uncaught re.error ends the process
ReadRules ==
    /\ pc = "start"
    /\ LET r == readrules(rulesfile)
       IN  IF r.ok
               THEN rules' = r.rules /\ pc' = "open" /\ exitcode' = exitcode
               ELSE rules' = <<>> /\ pc' = "exited" /\ exitcode' = 1
    /\ UNCHANGED <<args, nochange, saved, run, acct, orig_splits, oi, ii, total,
                   imbalance, fixed, lastcall, err, saveCalls, endCalls, trace,
                   tested, store0, prev>>

\* lines 162-165; Session() raising is uncaught and ends the process
OpenSession ==
    /\ pc = "open"
    /\ IF storeOK
           THEN /\ acct' = saved
                /\ store0' = saved
                /\ pc' = "try"
                /\ exitcode' = exitcode
           ELSE /\ pc' = "exited"
                /\ exitcode' = 1
                /\ UNCHANGED <<acct, store0>>
    /\ total' = 0
    /\ imbalance' = 0
    /\ fixed' = 0
    /\ UNCHANGED <<args, nochange, saved, run, rules, orig_splits, oi, ii,
                   lastcall, err, saveCalls, endCalls, trace, tested, prev>>

\* lines 167-172: the starting account, the imbalance pattern, the split list
Resolve ==
    /\ pc = "try"
    /\ LET account_path == re_split(ac2fix)
           orig_account == account_from_path(Root, account_path, account_path)
       IN  IF ~orig_account.ok
               THEN /\ err' = [kind |-> "account", msg |-> orig_account.msg, path |-> ac2fix]
                    /\ pc' = "except"
                    /\ UNCHANGED orig_splits
           ELSE IF ~Compiles(imbalance_ac)
               THEN /\ err' = [kind |-> "regex", msg |-> REGEX_ERROR, path |-> <<>>]
                    /\ pc' = "except"
                    /\ UNCHANGED orig_splits
           ELSE /\ orig_splits' = GetSplitList(orig_account.account, acct)
                /\ pc' = "outer"
                /\ UNCHANGED err
    /\ oi' = 0
    /\ UNCHANGED <<args, nochange, saved, run, rules, acct, ii, total, imbalance,
                   fixed, lastcall, saveCalls, endCalls, exitcode, trace, tested,
                   store0, prev>>

\* lines 172-178: the next split of the account to fix
Outer ==
    /\ pc = "outer"
    /\ oi < Len(orig_splits)
    /\ oi' = oi + 1
    /\ total' = total + 1
    /\ ii' = 0
    /\ pc' = "inner"
    /\ UNCHANGED <<args, nochange, saved, run, rules, acct, orig_splits, imbalance,
                   fixed, lastcall, err, saveCalls, endCalls, exitcode, trace,
                   tested, store0, prev>>

\* lines 179-192: one split of the current transaction
Inner ==
    /\ pc = "inner"
    /\ LET t       == orig_splits[oi][1]
           splits  == TransSplits(t)
           split   == splits[ii + 1]
           ac      == acct[split]
           acname  == GetName(ac)
           hit     == Eligible(acname)
           newac   == get_ac_from_str(SearchStr(t), rules, Root)
           next    == IF ii + 1 >= Len(splits) THEN "outer" ELSE "inner"
       IN  /\ tested' = Append(tested, [split |-> split, eligible |-> hit])
           /\ imbalance' = IF hit THEN imbalance + 1 ELSE imbalance
           /\ lastcall' = IF hit THEN [called |-> TRUE, str |-> SearchStr(t), result |-> newac]
                          ELSE lastcall
           /\ IF hit /\ newac.kind = "raise"
                  THEN /\ err' = [kind |-> "account", msg |-> newac.msg, path |-> newac.acpath]
                       /\ pc' = "except"
                       /\ UNCHANGED <<acct, saved, fixed, trace, ii>>
              ELSE IF hit /\ newac.kind = "account"
                  THEN /\ acct' = SetAccount(acct, split, newac.account)
                       /\ saved' = IF backend = "sql"
                                       THEN SetAccount(saved, split, newac.account)
                                       ELSE saved
                       /\ fixed' = fixed + 1
                       /\ trace' = Append(trace, [split |-> split, old |-> ac,
                                                  new |-> newac.account])
                       /\ ii' = ii + 1
                       /\ pc' = next
                       /\ UNCHANGED err
              ELSE /\ ii' = ii + 1
                   /\ pc' = next
                   /\ UNCHANGED <<acct, saved, fixed, trace, err>>
    /\ UNCHANGED <<args, nochange, run, rules, orig_splits, oi, total, saveCalls,
                   endCalls, exitcode, store0, prev>>

\* lines 194-197: the loop is over; save unless told not to, report the counters
Finish ==
    /\ pc = "outer"
    /\ oi >= Len(orig_splits)
    /\ IF ShouldSave
           THEN saved' = acct /\ saveCalls' = saveCalls + 1
           ELSE UNCHANGED <<saved, saveCalls>>
    /\ pc' = "end"
    /\ UNCHANGED <<args, nochange, run, rules, acct, orig_splits, oi, ii, total,
                   imbalance, fixed, lastcall, err, endCalls, exitcode, trace,
                   tested, store0, prev>>

\* an except clause that leaves main at once
HandleExceptionReturn ==
    /\ pc = "except"
    /\ pc' = "exited"
    /\ exitcode' = 0
    /\ UNCHANGED <<args, nochange, saved, run, rules, acct, orig_splits, oi, ii,
                   total, imbalance, fixed, lastcall, err, saveCalls, endCalls,
                   trace, tested, store0, prev>>

\* lines 199-200: except Exception as ex: logging.error(ex)
HandleException ==
    /\ pc = "except"
    /\ pc' = "end"
    /\ UNCHANGED <<args, nochange, saved, run, rules, acct, orig_splits, oi, ii,
                   total, imbalance, fixed, lastcall, err, saveCalls, endCalls,
                   exitcode, trace, tested, store0, prev>>

\* line 202, then main returns and the process exits
EndSession ==
    /\ pc = "end"
    /\ endCalls' = endCalls + 1
    /\ pc' = "exited"
    /\ exitcode' = 0
    /\ UNCHANGED <<args, nochange, saved, run, rules, acct, orig_splits, oi, ii,
                   total, imbalance, fixed, lastcall, err, saveCalls, trace,
                   tested, store0, prev>>

\* the program is started again on the same rules file, store and account
Rerun ==
    /\ pc = "exited"
    /\ run < MaxRuns
    /\ run' = run + 1
    /\ nochange' \in BOOLEAN
    /\ prev' = [valid |-> TRUE, nochange |-> nochange,
                completed |-> (exitcode = 0 /\ err.kind = "none"),
                total |-> total, imbalance |-> imbalance, fixed |-> fixed,
                trace |-> trace, acct |-> acct, store0 |-> store0]
    /\ pc' = "start"
    /\ rules' = <<>>
    /\ orig_splits' = <<>>
    /\ oi' = 0
    /\ ii' = 0
    /\ total' = 0
    /\ imbalance' = 0
    /\ fixed' = 0
    /\ lastcall' = NoCall
    /\ err' = NoErr
    /\ saveCalls' = 0
    /\ endCalls' = 0
    /\ exitcode' = -1
    /\ trace' = <<>>
    /\ tested' = <<>>
    /\ store0' = saved
    /\ UNCHANGED <<args, saved, acct>>

Next ==
    \/ ReadRules
    \/ OpenSession
    \/ Resolve
    \/ Outer
    \/ Inner
    \/ Finish
    \/ HandleException
    \/ EndSession
    \/ Rerun

Spec == Init /\ [][Next]_vars

SpecRules == InitRules /\ [][Next]_vars

\* after a raise inside the try block control passes to the except clause and then
\* to gnucash_session.end(): neither step waits on anything
FairSpec == Init /\ [][Next]_vars /\ WF_vars(HandleException) /\ WF_vars(EndSession)

(***************************************************************************)
(* What a rules file says, read off its text                               *)
(***************************************************************************)
\* the <<pattern, account>> a line states: the stripped line is
\*   account, whitespace, pattern      or     "account", whitespace, pattern
\* cut after index c[1] (end of the account token) and before c[2] (the pattern)
LineRules(line) ==
    LET s    == strip(line)
        cuts == {c \in (1..Len(s)) \X (1..Len(s)) :
                    /\ c[1] + 1 < c[2]
                    /\ \A i \in (c[1] + 1)..(c[2] - 1) : IsSpace(s[i])
                    /\ ~IsSpace(s[c[2]])
                    /\ \/ /\ s[1] \notin {"#", "\""}
                          /\ \A i \in 1..c[1] : ~IsSpace(s[i])
                       \/ /\ s[1] = "\""
                          /\ c[1] >= 3
                          /\ s[c[1]] = "\""
                          /\ \A i \in 2..(c[1] - 1) : s[i] # "\""}
    IN  {<<SubSeq(s, c[2], Len(s)),
           IF s[1] = "\"" THEN SubSeq(s, 2, c[1] - 1) ELSE SubSeq(s, 1, c[1])>> : c \in cuts}

WellFormed(line) == LineRules(line) # {}

\* neither blank nor a comment, and not of either rule format
Malformed(line) ==
    /\ strip(line) # <<>>
    /\ Head(strip(line)) # "#"
    /\ ~WellFormed(line)

RECURSIVE WellFormedEntries(_)
WellFormedEntries(file) ==
    IF file = <<>> THEN <<>>
    ELSE (IF WellFormed(Head(file)) THEN <<CHOOSE r \in LineRules(Head(file)) : TRUE>>
          ELSE <<>>) \o WellFormedEntries(Tail(file))

AllCompile(file) ==
    \A i \in 1..Len(file) : \A r \in LineRules(file[i]) : Compiles(r[1])

\* the lines of the rules file whose pattern is found in str
MatchingLines(str) ==
    {i \in 1..Len(rulesfile) : \E r \in LineRules(rulesfile[i]) : search(r[1], str)}

LineAccount(i) == (CHOOSE r \in LineRules(rulesfile[i]) : TRUE)[2]

Resolved(acpath) == account_from_path(Root, re_split(acpath), re_split(acpath))

\* sub occurs in s
Contains(s, sub) ==
    \E i \in 0..(Len(s) - Len(sub)) : SubSeq(s, i + 1, i + Len(sub)) = sub

Completed == pc = "exited" /\ exitcode = 0 /\ err.kind = "none"

(***************************************************************************)
(* Claims                                                                  *)
(***************************************************************************)

\* C1: first match wins. Every get_ac_from_str call on the rules readrules
\* produced answers with the account of the earliest line of the rules file
\* whose pattern is found in the search string: that account if its path
\* resolves, the resolution error of that path if it does not, and "no
\* match" only when no line's pattern is found. A later matching line is
\* never the one used.
C1_FirstMatchWins ==
    lastcall.called =>
        LET M == MatchingLines(lastcall.str)
        IN  IF M = {} THEN lastcall.result.kind = "nomatch"
            ELSE LET first == LineAccount(Min(M))
                 IN  IF Resolved(first).ok
                         THEN /\ lastcall.result.kind = "account"
                              /\ lastcall.result.account = Resolved(first).account
                         ELSE /\ lastcall.result.kind = "raise"
                              /\ lastcall.result.acpath = first

\* C1 witness: two lines naming different accounts both match the search
\* string, and the call returned an account.
C1_Witness ==
    /\ lastcall.called
    /\ lastcall.result.kind = "account"
    /\ \E i, j \in MatchingLines(lastcall.str) :
           i < j /\ Resolved(LineAccount(i)).ok /\ Resolved(LineAccount(j)).ok
                 /\ Resolved(LineAccount(i)).account # Resolved(LineAccount(j)).account

\* C2: a split's account is changed by SetAccount only if the name of the
\* account it is in at that moment satisfies the imbalance pattern; within a
\* session no split's account changes in any other way.
C2_OnlyImbalanceReassigned ==
    [][/\ Len(trace') > Len(trace) =>
              match(imbalance_ac, GetName(acct[trace'[Len(trace')].split]))
       /\ \A s \in DOMAIN acct :
              (acct'[s] # acct[s] /\ pc # "open") =>
                  /\ match(imbalance_ac, GetName(acct[s]))
                  /\ Len(trace') = Len(trace) + 1
                  /\ trace'[Len(trace')].split = s]_vars

\* C2 witness: a run that has reassigned at least two splits, one of them a
\* split reassigned before in the same run, and has passed over a split
\* whose account is not an imbalance account.
C2_Witness ==
    /\ \E i, j \in 1..Len(trace) : i < j /\ trace[i].split = trace[j].split
    /\ \E i \in 1..Len(tested) : ~tested[i].eligible

\* a run that ended normally on the book a completed earlier run left behind
RerunOnFixedBook ==
    /\ prev.valid
    /\ prev.completed
    /\ store0 = prev.acct
    /\ pc = "exited"
    /\ exitcode = 0

\* C3 as stated: the second run on the state a completed first run left
\* reports fixed = 0 and leaves every split's account unchanged.
C3_Original == RerunOnFixedBook => (fixed = 0 /\ acct = store0)

\* C3 amended: the second run raises no error and leaves every split's
\* account unchanged; it reports fixed = 0 provided that no account the
\* first run assigned has a name that satisfies the imbalance pattern.
C3_Idempotent ==
    RerunOnFixedBook =>
        /\ err.kind = "none"
        /\ acct = store0
        /\ (\A i \in 1..Len(prev.trace) :
                ~match(imbalance_ac, GetName(prev.trace[i].new))) => fixed = 0

\* C3 witness: the first run reassigned splits, the second run found
\* imbalance splits left over and reassigned none.
C3_Witness ==
    /\ RerunOnFixedBook
    /\ prev.fixed > 0
    /\ imbalance > 0
    /\ fixed = 0

\* a fatal setup error: a pattern of the rules file does not compile, the
\* store cannot be opened, or the starting account path does not resolve
FatalSetup ==
    \/ ~readrules(rulesfile).ok
    \/ ~storeOK
    \/ ~Resolved(ac2fix).ok

\* C4 as stated: the exit code is non-zero on each fatal setup error and 0
\* on normal completion.
C4_ExitCode ==
    pc = "exited" =>
        /\ FatalSetup => exitcode # 0
        /\ (~FatalSetup /\ err.kind = "none") => exitcode = 0

\* C5 as stated: the message of an account_from_path failure contains the
\* full original colon-delimited path.
C5_FullPathInError == err.kind = "account" => Contains(err.msg, err.path)

\* C6 as stated: a run with nochange never calls save and leaves the store
\* as it found it, and its reassignments and counters are those of a run on
\* the same inputs without the flag.
C6_Original ==
    /\ nochange => (saveCalls = 0 /\ saved = store0)
    /\ (pc = "exited" /\ prev.valid /\ prev.nochange # nochange /\ store0 = prev.store0) =>
           /\ trace = prev.trace
           /\ total = prev.total
           /\ imbalance = prev.imbalance
           /\ fixed = prev.fixed

\* C6 amended: a run with nochange never calls save, and on a file store
\* (where SetAccount stays in memory until save) it leaves the store as it
\* found it; its reassignments and counters are those of a run on the same
\* inputs without the flag.
C6_DryRun ==
    /\ nochange => (saveCalls = 0 /\ (backend = "file" => saved = store0))
    /\ (pc = "exited" /\ prev.valid /\ prev.nochange # nochange /\ store0 = prev.store0) =>
           /\ trace = prev.trace
           /\ total = prev.total
           /\ imbalance = prev.imbalance
           /\ fixed = prev.fixed

\* C6 witness: a dry run that reassigned splits, followed by a persisting
\* run on the same store that reassigned the same splits and saved them.
C6_Witness ==
    /\ pc = "exited"
    /\ prev.valid /\ prev.nochange /\ prev.completed /\ prev.fixed > 0
    /\ ~nochange
    /\ backend = "file"
    /\ store0 = prev.store0
    /\ fixed > 0
    /\ saveCalls = 1
    /\ saved # store0

\* C7: when every pattern of the rules file compiles, readrules does not
\* raise and returns exactly the entries of the well-formed lines, in file
\* order; blank, comment and malformed lines contribute nothing.
C7_MalformedDropped ==
    (pc # "start" /\ AllCompile(rulesfile)) =>
        /\ rules = WellFormedEntries(rulesfile)
        /\ ~(pc = "exited" /\ exitcode = 1 /\ storeOK)

\* C7 witness: a rules file with a malformed line before a well-formed one
\* has been read.
C7_Witness ==
    /\ pc = "open"
    /\ AllCompile(rulesfile)
    /\ \E i, j \in 1..Len(rulesfile) :
           i < j /\ Malformed(rulesfile[i]) /\ WellFormed(rulesfile[j])
    /\ Len(rules) >= 1

Inspected == {tested[i].split : i \in 1..Len(tested)}
FoundEligible == {tested[i].split : i \in {j \in 1..Len(tested) : tested[j].eligible}}
Reassigned == {trace[i].split : i \in 1..Len(trace)}

\* the splits of the account to fix, which the outer loop visits
SourceSplits == {s \in DOMAIN store0 : store0[s] = Resolved(ac2fix).account}

\* C8 as stated: at the end of a run every counter has counted each split at
\* most once: each split the driver visited in the account to fix has added
\* exactly 1 to total, each split found imbalance-eligible exactly 1 to
\* imbalance, and each reassigned split exactly 1 to fixed, also when a
\* transaction has several splits in the account to fix.
C8_CountedOnce ==
    Completed =>
        /\ total = Cardinality(SourceSplits)
        /\ imbalance = Cardinality(FoundEligible)
        /\ fixed = Cardinality(Reassigned)

\* C9: once an exception is raised inside the pass, save is not called, and
\* the run goes on to end the session exactly once.
C9_ErrorEndsSession ==
    /\ [](err.kind # "none" => saveCalls = 0 /\ endCalls <= 1)
    /\ []((pc = "exited" /\ err.kind # "none") => endCalls = 1)
    /\ (pc = "except") ~> (pc = "exited" /\ endCalls = 1 /\ saveCalls = 0)

\* C9 witness: a run that had reassigned a split when a matched rule's
\* account path failed to resolve, and has ended.
C9_Witness ==
    /\ pc = "exited"
    /\ err.kind = "account"
    /\ lastcall.result.kind = "raise"
    /\ fixed > 0
    /\ endCalls = 1
    /\ saveCalls = 0

\* the transactions with a split in the account to fix when the session opened
Touching ==
    {t \in 1..Len(ledger) :
        \E k \in 1..ledger[t].n : store0[<<t, k>>] = Resolved(ac2fix).account}

\* C10: when a run completes without error, every split of every
\* transaction that had a split in the account to fix has had its account
\* name tested against the imbalance pattern.
C10_AllSplitsExamined ==
    Completed =>
        \A t \in Touching : \A k \in 1..ledger[t].n : <<t, k>> \in Inspected

\* C10 witness: a completed run over a transaction of three splits whose
\* first split is not in the account to fix.
C10_Witness ==
    /\ Completed
    /\ \E t \in Touching :
           /\ ledger[t].n >= 3
           /\ store0[<<t, 1>>] # Resolved(ac2fix).account
           /\ <<t, 3>> \in Inspected

====
